---- MODULE Spec2Model ----
(***************************************************************************)
(* Model of czeslconv/convert.py: conversion of the three-layer Czesl      *)
(* annotation (W, A, B) to the vertical format.                            *)
(*                                                                         *)
(* Parsed XML is represented by records:                                   *)
(*   edge      [from : Seq(ref string "w#id"), to : Seq(raw string),       *)
(*              errors : Seq([tags : Seq(STRING)])]                        *)
(*   W w-tag   [id, text]                                                  *)
(*   A/B w-tag [id, text, lex : Seq([lemma, tags]), edges : Seq(edge)]     *)
(*   B <s>     [id, w : Seq(w-tag)]                                        *)
(*   para      [id, w, a, aDel, b, bDel]   (aligned W/A/B paragraphs)      *)
(*   doc       [id, paras]                 (aligned W/A/B documents)       *)
(* A string of output is a sequence of lines; '\n'.join is concatenation.  *)
(***************************************************************************)
EXTENDS Integers, Sequences, FiniteSets, TLC

(***************************************************************************)
(* Constants of convert.py                                                 *)
(***************************************************************************)
POS_TAG_SEP == "|"
DEL_TOK_STR == "===NONE==="
DEL_TOK_ID == "NA"

\* Python's None for a sentence id (no id of the input has this value)
None == "<None>"

\* truth value of a Python str-or-None
Truthy(s) == s # None /\ s # ""

(***************************************************************************)
(* Strings                                                                 *)
(***************************************************************************)
RECURSIVE Join(_, _)
\* sep.join(strs)
Join(strs, sep) ==
    IF strs = <<>> THEN ""
    ELSE IF Len(strs) = 1 THEN strs[1]
    ELSE strs[1] \o sep \o Join(Tail(strs), sep)

\* s.split(sep, maxsplit=1)[1] for a one-character sep that occurs in s
SplitSecond(s, sep) ==
    LET i == CHOOSE i \in 1..Len(s) :
                 /\ SubSeq(s, i, i) = sep
                 /\ \A j \in 1..(i - 1) : SubSeq(s, j, j) # sep
    IN SubSeq(s, i + 1, Len(s))

RECURSIVE Flatten(_)
\* concatenation of a sequence of sequences
Flatten(ss) == IF ss = <<>> THEN <<>> ELSE Head(ss) \o Flatten(Tail(ss))

(***************************************************************************)
(* dict / defaultdict(list): association list in insertion order           *)
(***************************************************************************)
HasKey(m, k) == \E i \in 1..Len(m) : m[i].k = k

KeyIdx(m, k) == CHOOSE i \in 1..Len(m) : m[i].k = k

\* m[k] read without insertion (dict.get with default)
MapGet(m, k, default) == IF HasKey(m, k) THEN m[KeyIdx(m, k)].v ELSE default

\* m[k] = v
MapPut(m, k, v) ==
    IF HasKey(m, k) THEN [m EXCEPT ![KeyIdx(m, k)].v = v]
    ELSE Append(m, [k |-> k, v |-> v])

\* defaultdict(list): m[k].extend(vals)
MapExtend(m, k, vals) == MapPut(m, k, MapGet(m, k, <<>>) \o vals)

\* defaultdict(list): reading m[k] inserts an empty list for a missing key
MapTouch(m, k) == MapExtend(m, k, <<>>)

RECURSIVE MapTouchAll(_, _)
MapTouchAll(m, ks) ==
    IF ks = <<>> THEN m ELSE MapTouchAll(MapTouch(m, Head(ks)), Tail(ks))

Keys(m) == {m[i].k : i \in 1..Len(m)}

Range(s) == {s[i] : i \in 1..Len(s)}

(***************************************************************************)
(* revertMapping                                                           *)
(***************************************************************************)
RECURSIVE RevertValsOverwrite(_, _, _)
\* revertMapping with revertedMap[v] = [k] in place of the append
RevertValsOverwrite(rev, k, vals) ==
    IF vals = <<>> THEN rev
    ELSE RevertValsOverwrite(MapPut(rev, Head(vals), <<k>>), k, Tail(vals))

RECURSIVE RevertVals(_, _, _)
\* for v in vals: revertedMap[v].append(k)
RevertVals(rev, k, vals) ==
    IF vals = <<>> THEN rev
    ELSE RevertVals(MapExtend(rev, Head(vals), <<k>>), k, Tail(vals))

RECURSIVE RevertItems(_, _)
\* for k, vals in mapping.items(): ...
RevertItems(rev, items) ==
    IF items = <<>> THEN rev
    ELSE RevertItems(RevertVals(rev, Head(items).k, Head(items).v), Tail(items))

revertMapping(mapping) == RevertItems(<<>>, mapping)

(***************************************************************************)
(* Tokens                                                                  *)
(***************************************************************************)
\* reference to the AnnotToken at position ix of the adjacent layer
TokRef(ix) == [del |-> FALSE, ix |-> ix, fromId |-> "", errors |-> <<>>]

\* DeletionToken(fromId, errors)
DeletionToken(fromId, errors) ==
    [del |-> TRUE, ix |-> 0, fromId |-> fromId, errors |-> errors]

\* ErrorData.fromTag (the links of an error are never read by the converter)
ErrorData(tags) == [tags |-> tags]

AnnotToken(tid, layer, text, morphs, sentenceId, linkIdsLower, linkIdsHigher, errors, linksHigher) ==
    [tid |-> tid, layer |-> layer, text |-> text, morphs |-> morphs,
     sentenceId |-> sentenceId,
     linkIdsLower |-> linkIdsLower, linkIdsHigher |-> linkIdsHigher,
     errors |-> errors, linksLower |-> <<>>, linksHigher |-> linksHigher]

\* TokenLayer.get: idToToken = {t.tid: t for t in tokens}; 0 stands for None
LayerGet(layer, tid) ==
    IF \E i \in 1..Len(layer) : layer[i].tid = tid
    THEN CHOOSE i \in 1..Len(layer) :
            /\ layer[i].tid = tid
            /\ \A j \in (i + 1)..Len(layer) : layer[j].tid # tid
    ELSE 0

\* a log line on stderr / stdout
LogLine(msg, id) == [msg |-> msg, id |-> id]

(***************************************************************************)
(* createLinkedLayers: the id maps                                         *)
(***************************************************************************)
RECURSIVE SplitRefs(_)
\* [inEdge.string.split('#', maxsplit=1)[1] for inEdge in edge.find_all('from')]
SplitRefs(refs) ==
    IF refs = <<>> THEN <<>>
    ELSE <<SplitSecond(Head(refs), "#")>> \o SplitRefs(Tail(refs))

RECURSIVE ExtendAll(_, _, _)
\* for fromId in fromIds: idMap[fromId].extend(toIds)
ExtendAll(m, fromIds, toIds) ==
    IF fromIds = <<>> THEN m
    ELSE ExtendAll(MapExtend(m, Head(fromIds), toIds), Tail(fromIds), toIds)

RECURSIVE EdgesToMap(_, _, _)
\* the edges of one w-tag, in order
EdgesToMap(m, wid, edges) ==
    IF edges = <<>> THEN m
    ELSE EdgesToMap(
            ExtendAll(m, SplitRefs(Head(edges).from), <<wid>> \o Head(edges).to),
            wid, Tail(edges))

RECURSIVE BuildIdMapWA(_, _)
\* for aw in aPara.find_all('w'): for edge in aw.find_all('edge', recursive=False)
BuildIdMapWA(m, aws) ==
    IF aws = <<>> THEN m
    ELSE BuildIdMapWA(EdgesToMap(m, Head(aws).id, Head(aws).edges), Tail(aws))

RECURSIVE BuildIdMapAB(_, _)
\* for bw in bPara.find_all('w'): if bw.edge: (only the first edge is read)
BuildIdMapAB(m, bws) ==
    IF bws = <<>> THEN m
    ELSE BuildIdMapAB(
            EdgesToMap(m, Head(bws).id,
                       IF Head(bws).edges = <<>> THEN <<>>
                       ELSE <<Head(Head(bws).edges)>>),
            Tail(bws))

(***************************************************************************)
(* findDeletions                                                           *)
(***************************************************************************)
RECURSIVE PutDeletions(_, _, _)
\* for fromId in fromIds: idToDel[fromId] = DeletionToken(fromId, errors)
PutDeletions(m, fromIds, errors) ==
    IF fromIds = <<>> THEN m
    ELSE PutDeletions(MapPut(m, Head(fromIds), DeletionToken(Head(fromIds), errors)),
                      Tail(fromIds), errors)

RECURSIVE FindDeletionsFrom(_, _)
FindDeletionsFrom(m, edges) ==
    IF edges = <<>> THEN m
    ELSE IF Head(edges).to # <<>>
         THEN FindDeletionsFrom(m, Tail(edges))
         ELSE FindDeletionsFrom(
                 PutDeletions(m, SplitRefs(Head(edges).from), Head(edges).errors),
                 Tail(edges))

findDeletions(edges) == FindDeletionsFrom(<<>>, edges)

RECURSIVE FindDeletionsLog(_)
FindDeletionsLog(edges) ==
    IF edges = <<>> THEN <<>>
    ELSE (IF Head(edges).to # <<>>
          THEN <<LogLine("Unexpected non-deletion edge directly under <para>", "")>>
          ELSE <<>>) \o FindDeletionsLog(Tail(edges))

(***************************************************************************)
(* createWLayer / createALayer / createBLayer                              *)
(***************************************************************************)
\* linksHigher=[delNode] if delNode else []
DelLinks(idToDel, wid) ==
    IF HasKey(idToDel, wid) THEN <<MapGet(idToDel, wid, <<>>)>> ELSE <<>>

createWLayer(wPara, idMapWA, idToDelW) ==
    [i \in 1..Len(wPara) |->
        AnnotToken(wPara[i].id, "w", wPara[i].text, <<>>, None,
                   <<>>, MapGet(idMapWA, wPara[i].id, <<>>),
                   <<>>, DelLinks(idToDelW, wPara[i].id))]

\* the anomaly messages of the loop of a layer builder for one w-tag
LinkAnomaly(layerName, wid, idMap, idToDel) ==
    IF ~HasKey(idToDel, wid) /\ MapGet(idMap, wid, <<>>) = <<>>
    THEN <<LogLine(layerName \o "-layer token with no links", wid)>>
    ELSE IF HasKey(idToDel, wid) /\ MapGet(idMap, wid, <<>>) # <<>>
    THEN <<LogLine(layerName \o "-layer token with both deletion and non-deletion edges", wid)>>
    ELSE <<>>

createWLayerLog(wPara, idMapWA, idToDelW) ==
    Flatten([i \in 1..Len(wPara) |->
                LinkAnomaly("W", wPara[i].id, idMapWA, idToDelW)])

\* [Morph.fromLexTag(lex) for lex in wTag.find_all('lex', recursive=False)]
WithLex(tags) == SelectSeq(tags, LAMBDA t : t.lex # <<>>)

\* the errors of an A-layer w-tag: all edges when there are several,
\* else those of wTag.edge
AErrors(wTag) ==
    IF Len(wTag.edges) > 1
    THEN Flatten([e \in 1..Len(wTag.edges) |-> wTag.edges[e].errors])
    ELSE IF wTag.edges # <<>> THEN wTag.edges[1].errors ELSE <<>>

createALayer(aPara, idMapAW, idMapAB, idToDelA) ==
    LET tags == WithLex(aPara)
    IN [i \in 1..Len(tags) |->
          AnnotToken(tags[i].id, "a", tags[i].text, tags[i].lex, None,
                     MapGet(idMapAW, tags[i].id, <<>>),
                     MapGet(idMapAB, tags[i].id, <<>>),
                     AErrors(tags[i]), DelLinks(idToDelA, tags[i].id))]

createALayerLog(aPara, idMapAB, idToDelA) ==
    Flatten([i \in 1..Len(aPara) |->
        IF aPara[i].lex = <<>>
        THEN <<LogLine("skipping token with no lex tag", aPara[i].id)>>
        ELSE (IF Len(aPara[i].edges) > 1
              THEN <<LogLine("w-tag contains multiple edges", aPara[i].id)>>
              ELSE <<>>)
             \o LinkAnomaly("A", aPara[i].id, idMapAB, idToDelA)])

\* the w-tags of the sentences of a B paragraph, each with its sentence id
BTags(bPara) ==
    Flatten([s \in 1..Len(bPara) |->
        [j \in 1..Len(bPara[s].w) |-> [sentId |-> bPara[s].id, tag |-> bPara[s].w[j]]]])

\* errors of a B-layer w-tag: those of wTag.edge
BErrors(wTag) == IF wTag.edges # <<>> THEN wTag.edges[1].errors ELSE <<>>

createBLayer(bPara, idMapBA) ==
    LET tags == SelectSeq(BTags(bPara), LAMBDA st : st.tag.lex # <<>>)
    IN [i \in 1..Len(tags) |->
          AnnotToken(tags[i].tag.id, "b", tags[i].tag.text, <<tags[i].tag.lex[1]>>,
                     tags[i].sentId,
                     MapGet(idMapBA, tags[i].tag.id, <<>>), <<>>,
                     BErrors(tags[i].tag), <<>>)]

\* assert len(wTag.find_all('lex', recursive=False)) == 1 fails for some w-tag
createBLayerRaises(bPara) ==
    \E i \in 1..Len(BTags(bPara)) : Len(BTags(bPara)[i].tag.lex) > 1

(***************************************************************************)
(* findTokensByIds / linkLayers                                            *)
(***************************************************************************)
RECURSIVE findTokensByIds(_, _)
\* the found tokens, as references into the layer
findTokensByIds(ids, layer) ==
    IF ids = <<>> THEN <<>>
    ELSE (IF LayerGet(layer, Head(ids)) = 0 THEN <<>>
          ELSE <<TokRef(LayerGet(layer, Head(ids)))>>)
         \o findTokensByIds(Tail(ids), layer)

\* the unmatched ids
unmatchedIds(ids, layer) == SelectSeq(ids, LAMBDA id : LayerGet(layer, id) = 0)

\* linkLayers without the test "if not wToken.linksHigher": the found tokens
\* are added to the links
linkWAppend(wLayer, aLayer) ==
    [i \in 1..Len(wLayer) |->
        [wLayer[i] EXCEPT !.linksHigher =
            wLayer[i].linksHigher \o findTokensByIds(wLayer[i].linkIdsHigher, aLayer)]]

\* the three loops of linkLayers; each token is linked against the layers
\* as built by the layer builders
linkW(wLayer, aLayer) ==
    [i \in 1..Len(wLayer) |->
        IF wLayer[i].linksHigher = <<>>
        THEN [wLayer[i] EXCEPT !.linksHigher = findTokensByIds(wLayer[i].linkIdsHigher, aLayer)]
        ELSE wLayer[i]]

linkA(wLayer, aLayer, bLayer) ==
    [i \in 1..Len(aLayer) |->
        [aLayer[i] EXCEPT
            !.linksLower = findTokensByIds(aLayer[i].linkIdsLower, wLayer),
            !.linksHigher = IF aLayer[i].linksHigher = <<>>
                            THEN findTokensByIds(aLayer[i].linkIdsHigher, bLayer)
                            ELSE aLayer[i].linksHigher]]

linkB(aLayer, bLayer) ==
    [i \in 1..Len(bLayer) |->
        [bLayer[i] EXCEPT !.linksLower = findTokensByIds(bLayer[i].linkIdsLower, aLayer)]]

\* the messages of linkLayers (printed on stdout)
NotFound(ids, layer, fromTid) ==
    [j \in 1..Len(unmatchedIds(ids, layer)) |->
        [k |-> "notfound", lv |-> fromTid, ty |-> unmatchedIds(ids, layer)[j], f |-> <<>>]]

linkLayersOut(wLayer, aLayer, bLayer) ==
    Flatten([i \in 1..Len(wLayer) |->
                IF wLayer[i].linksHigher = <<>>
                THEN NotFound(wLayer[i].linkIdsHigher, aLayer, wLayer[i].tid) ELSE <<>>])
    \o Flatten([i \in 1..Len(aLayer) |->
                NotFound(aLayer[i].linkIdsLower, wLayer, aLayer[i].tid)
                \o (IF aLayer[i].linksHigher = <<>>
                    THEN NotFound(aLayer[i].linkIdsHigher, bLayer, aLayer[i].tid) ELSE <<>>)])
    \o Flatten([i \in 1..Len(bLayer) |->
                NotFound(bLayer[i].linkIdsLower, aLayer, bLayer[i].tid)])

(***************************************************************************)
(* createLinkedLayers                                                      *)
(***************************************************************************)
TagIds(tags) == [i \in 1..Len(tags) |-> tags[i].id]

createLinkedLayers(para) ==
    LET bws      == [i \in 1..Len(BTags(para.b)) |-> BTags(para.b)[i].tag]
        mapWA    == BuildIdMapWA(<<>>, para.a)
        delW     == findDeletions(para.aDel)
        mapAB    == BuildIdMapAB(<<>>, bws)
        delA     == findDeletions(para.bDel)
        mapAW    == revertMapping(mapWA)
        mapBA    == revertMapping(mapAB)
        wLayer0  == createWLayer(para.w, mapWA, delW)
        aLayer0  == createALayer(para.a, mapAW, mapAB, delA)
        bLayer0  == createBLayer(para.b, mapBA)
        raises   == createBLayerRaises(para.b)
    IN [raises  |-> raises,
        idMapWA |-> MapTouchAll(mapWA, TagIds(para.w)),
        idMapAB |-> MapTouchAll(mapAB, TagIds(WithLex(para.a))),
        idMapAW |-> MapTouchAll(mapAW, TagIds(WithLex(para.a))),
        idMapBA |-> IF raises THEN mapBA ELSE MapTouchAll(mapBA, TagIds(WithLex(bws))),
        idToDelW |-> delW,
        idToDelA |-> delA,
        w |-> IF raises THEN <<>> ELSE linkW(wLayer0, aLayer0),
        a |-> IF raises THEN <<>> ELSE linkA(wLayer0, aLayer0, bLayer0),
        b |-> IF raises THEN <<>> ELSE linkB(aLayer0, bLayer0),
        err |-> FindDeletionsLog(para.aDel) \o FindDeletionsLog(para.bDel)
                \o createWLayerLog(para.w, mapWA, delW)
                \o createALayerLog(para.a, mapAB, delA),
        out |-> IF raises THEN <<>> ELSE linkLayersOut(wLayer0, aLayer0, bLayer0)]

(***************************************************************************)
(* assignSentenceIds                                                       *)
(***************************************************************************)
\* the first loop with linksHigher[-1] in place of linksHigher[0]
InheritSentenceIdsLast(tokLayer, higher) ==
    [i \in 1..Len(tokLayer) |->
        [tokLayer[i] EXCEPT !.sentenceId =
            IF tokLayer[i].linksHigher # <<>> /\ ~tokLayer[i].linksHigher[1].del
            THEN higher[tokLayer[i].linksHigher[Len(tokLayer[i].linksHigher)].ix].sentenceId
            ELSE None]]

\* first loop: the sentence id of the first higher link, if it is a token
InheritSentenceIds(tokLayer, higher) ==
    [i \in 1..Len(tokLayer) |->
        [tokLayer[i] EXCEPT !.sentenceId =
            IF tokLayer[i].linksHigher # <<>> /\ ~tokLayer[i].linksHigher[1].del
            THEN higher[tokLayer[i].linksHigher[1].ix].sentenceId
            ELSE None]]

\* second loop: index of the first token with a true sentence id, 0 for None
FirstOkIdx(tokLayer) ==
    IF \E i \in 1..Len(tokLayer) : Truthy(tokLayer[i].sentenceId)
    THEN CHOOSE i \in 1..Len(tokLayer) :
            /\ Truthy(tokLayer[i].sentenceId)
            /\ \A j \in 1..(i - 1) : ~Truthy(tokLayer[j].sentenceId)
    ELSE 0

\* for i in range(firstOkIdx): tokLayer.tokens[i].sentenceId = firstSentenceId
FillLeading(tokLayer, firstOkIdx) ==
    [i \in 1..Len(tokLayer) |->
        IF i < firstOkIdx
        THEN [tokLayer[i] EXCEPT !.sentenceId = tokLayer[firstOkIdx].sentenceId]
        ELSE tokLayer[i]]

\* assignSentenceIds without its last loop
FillGapsSkipped(tokLayer, i) == [raises |-> FALSE, layer |-> tokLayer]

RECURSIVE FillGaps(_, _)
\* last loop, from token i on: a None id becomes the id of tokens[i - 1]
\* (Python index -1 is the last token); assert tok.sentenceId
FillGaps(tokLayer, i) ==
    IF i > Len(tokLayer) THEN [raises |-> FALSE, layer |-> tokLayer]
    ELSE LET prev == IF i = 1 THEN Len(tokLayer) ELSE i - 1
             sid  == IF tokLayer[i].sentenceId = None
                     THEN tokLayer[prev].sentenceId
                     ELSE tokLayer[i].sentenceId
             next == [tokLayer EXCEPT ![i].sentenceId = sid]
         IN IF ~Truthy(sid) THEN [raises |-> TRUE, layer |-> next]
            ELSE FillGaps(next, i + 1)

assignSentenceIds(tokLayer, higher) ==
    IF Len(tokLayer) = 0 THEN [raises |-> FALSE, layer |-> tokLayer]
    ELSE LET first == InheritSentenceIds(tokLayer, higher)
         IN IF FirstOkIdx(first) = 0
            THEN [raises |-> FALSE,
                  layer |-> [i \in 1..Len(first) |-> [first[i] EXCEPT !.sentenceId = "unknown"]]]
            ELSE FillGaps(FillLeading(first, FirstOkIdx(first)), 1)

assignSentenceIdsLog(tokLayer, higher) ==
    IF Len(tokLayer) # 0 /\ FirstOkIdx(InheritSentenceIds(tokLayer, higher)) = 0
    THEN <<LogLine("could not assign sentence ID to tokens", "")>>
    ELSE <<>>

(***************************************************************************)
(* inferErrors                                                             *)
(***************************************************************************)
inferErrors(tokLayer, lower) ==
    [i \in 1..Len(tokLayer) |->
        IF /\ tokLayer[i].errors = <<>>
           /\ Len(tokLayer[i].linksLower) = 1
           /\ lower[tokLayer[i].linksLower[1].ix].text # tokLayer[i].text
        THEN [tokLayer[i] EXCEPT !.errors = <<ErrorData(<<"unknown">>)>>]
        ELSE tokLayer[i]]

(***************************************************************************)
(* paraToVert: predicates and line builders                                *)
(***************************************************************************)
\* a line of the output: a tag (k is its name, lv its level, ty its type or
\* id attribute) or a record of six tab-separated fields (k = "rec")
TagLine(k, lv, ty) == [k |-> k, lv |-> lv, ty |-> ty, f |-> <<>>]

Rec(f1, f2, f3, f4, f5, f6) ==
    [k |-> "rec", lv |-> "", ty |-> "", f |-> <<f1, f2, f3, f4, f5, f6>>]

\* _noErrors of the target of a higher link of an A token
noErrors(ref, bToks) ==
    (IF ref.del THEN ref.errors ELSE bToks[ref.ix].errors) = <<>> /\ ~ref.del

noErrorsTransitive(wTok, aToks, bToks) ==
    IF Len(wTok.linksHigher) # 1 \/ wTok.linksHigher[1].del THEN FALSE
    ELSE LET aTok == aToks[wTok.linksHigher[1].ix]
         IN IF aTok.errors # <<>> \/ Len(aTok.linksHigher) # 1 \/ aTok.linksHigher[1].del
            THEN FALSE
            ELSE bToks[aTok.linksHigher[1].ix].errors = <<>>

\* '|'.join('|'.join(e.tags) for e in errors)
getErrorTypeStr(errors) ==
    Join([i \in 1..Len(errors) |-> Join(errors[i].tags, "|")], "|")

aLemmas(aTok) == Join([i \in 1..Len(aTok.morphs) |-> aTok.morphs[i].lemma], "|")

aTags(aTok) ==
    Join([i \in 1..Len(aTok.morphs) |-> Join(aTok.morphs[i].tags, POS_TAG_SEP)], "|+|")

\* the record of a B token in a correction block
BRec(bTok) ==
    Rec(bTok.text, "", "", bTok.tid, bTok.morphs[1].lemma,
        Join(bTok.morphs[1].tags, POS_TAG_SEP))

\* the flat record with the A id and the B id in each other's place
FlatLinesSwapped(wTok, aToks, bToks) ==
    LET aTok == aToks[wTok.linksHigher[1].ix]
        bTok == bToks[aTok.linksHigher[1].ix]
    IN <<Rec(wTok.text, wTok.tid, bTok.tid, aTok.tid, bTok.morphs[1].lemma,
             Join(bTok.morphs[1].tags, POS_TAG_SEP))>>

\* lines 451-458
FlatLines(wTok, aToks, bToks) ==
    LET aTok == aToks[wTok.linksHigher[1].ix]
        bTok == bToks[aTok.linksHigher[1].ix]
    IN <<Rec(wTok.text, wTok.tid, aTok.tid, bTok.tid, bTok.morphs[1].lemma,
             Join(bTok.morphs[1].tags, POS_TAG_SEP))>>

\* the type of a deletion without the fallback 'del'
DelTypeStrNoFallback(links) ==
    IF links # <<>> THEN getErrorTypeStr(links[1].errors) ELSE ""

\* errTypeStr = getErrorTypeStr(deletionTok) if deletionTok else 'del'
DelTypeStr(links) ==
    IF links # <<>> THEN getErrorTypeStr(links[1].errors) ELSE "del"

\* the W-level deletion with the placeholder record of the A-level deletion
\* (line 553)
WDeletionLinesALevel(wTok) ==
    <<TagLine("err", "1", DelTypeStr(wTok.linksHigher)),
      Rec(wTok.text, wTok.tid, "", "", "", ""),
      TagLine("/err", "", ""),
      TagLine("corr", "1", DelTypeStr(wTok.linksHigher)),
      Rec(DEL_TOK_STR, "", "", DEL_TOK_ID, "", ""),
      TagLine("/corr", "", "")>>

\* lines 461-469
WDeletionLines(wTok) ==
    <<TagLine("err", "1", DelTypeStr(wTok.linksHigher)),
      Rec(wTok.text, wTok.tid, "", "", "", ""),
      TagLine("/err", "", ""),
      TagLine("corr", "1", DelTypeStr(wTok.linksHigher)),
      Rec(DEL_TOK_STR, "", DEL_TOK_ID, DEL_TOK_ID, "", ""),
      TagLine("/corr", "", "")>>

RECURSIVE RunLength(_, _, _)
\* while wToks and (aTok1 in wToks[0].linksHigher): the number of tokens taken
RunLength(aRef, rest, wLayer) ==
    IF rest # <<>> /\ aRef \in Range(wLayer[Head(rest)].linksHigher)
    THEN 1 + RunLength(aRef, Tail(rest), wLayer)
    ELSE 0

\* lines 487-518: the lines of one A token of a tier-1 correction block
\* (the item of an A token, below, with the tier-2 pair only for a first B
\* token that has errors)
CorrItemErrorsOnly(aTok, bToks) ==
    IF Len(aTok.linksHigher) = 1 /\ noErrors(aTok.linksHigher[1], bToks)
    THEN LET bTok == bToks[aTok.linksHigher[1].ix]
         IN <<Rec(aTok.text, "", aTok.tid, bTok.tid, bTok.morphs[1].lemma,
                  Join(bTok.morphs[1].tags, POS_TAG_SEP))>>
    ELSE IF /\ Len(aTok.linksHigher) >= 1
            /\ ~aTok.linksHigher[1].del
            /\ bToks[aTok.linksHigher[1].ix].errors # <<>>
    THEN LET errTypeStr == getErrorTypeStr(bToks[aTok.linksHigher[1].ix].errors)
         IN <<TagLine("err", "2", errTypeStr),
              Rec(aTok.text, "", aTok.tid, "", aLemmas(aTok), aTags(aTok)),
              TagLine("/err", "", ""),
              TagLine("corr", "2", errTypeStr)>>
            \o [j \in 1..Len(aTok.linksHigher) |-> BRec(bToks[aTok.linksHigher[j].ix])]
            \o <<TagLine("/corr", "", "")>>
    ELSE <<>>

CorrItem(aTok, bToks) ==
    IF Len(aTok.linksHigher) = 1 /\ noErrors(aTok.linksHigher[1], bToks)
    THEN LET bTok == bToks[aTok.linksHigher[1].ix]
         IN <<Rec(aTok.text, "", aTok.tid, bTok.tid, bTok.morphs[1].lemma,
                  Join(bTok.morphs[1].tags, POS_TAG_SEP))>>
    ELSE IF Len(aTok.linksHigher) >= 1 /\ ~aTok.linksHigher[1].del
    THEN LET errTypeStr == getErrorTypeStr(bToks[aTok.linksHigher[1].ix].errors)
         IN <<TagLine("err", "2", errTypeStr),
              Rec(aTok.text, "", aTok.tid, "", aLemmas(aTok), aTags(aTok)),
              TagLine("/err", "", ""),
              TagLine("corr", "2", errTypeStr)>>
            \o [j \in 1..Len(aTok.linksHigher) |-> BRec(bToks[aTok.linksHigher[j].ix])]
            \o <<TagLine("/corr", "", "")>>
    ELSE <<>>

\* for aTok in wTok.linksHigher
CorrItems(wTok, aToks, bToks) ==
    Flatten([j \in 1..Len(wTok.linksHigher) |->
                CorrItem(aToks[wTok.linksHigher[j].ix], bToks)])

\* the tier-1 error block with the record of the first W token only
WEditLinesFirstOnly(wTok, errWToks, wLayer, aToks, bToks) ==
    LET errTypeStr == getErrorTypeStr(aToks[wTok.linksHigher[1].ix].errors)
    IN <<TagLine("err", "1", errTypeStr),
         Rec(wTok.text, wTok.tid, "", "", "", ""),
         TagLine("/err", "", ""), TagLine("corr", "1", errTypeStr)>>
       \o CorrItems(wTok, aToks, bToks)
       \o <<TagLine("/corr", "", "")>>

\* lines 473-519; errWToks are the indices of the W tokens of the run
WEditLines(wTok, errWToks, wLayer, aToks, bToks) ==
    LET errTypeStr == getErrorTypeStr(aToks[wTok.linksHigher[1].ix].errors)
    IN <<TagLine("err", "1", errTypeStr)>>
       \o [j \in 1..Len(errWToks) |->
              Rec(wLayer[errWToks[j]].text, wLayer[errWToks[j]].tid, "", "", "", "")]
       \o <<TagLine("/err", "", ""), TagLine("corr", "1", errTypeStr)>>
       \o CorrItems(wTok, aToks, bToks)
       \o <<TagLine("/corr", "", "")>>

\* lines 522-540
AEditLines(wTok, aToks, bToks) ==
    LET aTok1 == aToks[wTok.linksHigher[1].ix]
        errTypeStr == getErrorTypeStr(bToks[aTok1.linksHigher[1].ix].errors)
    IN <<TagLine("err", "2", errTypeStr),
         Rec(wTok.text, wTok.tid, aTok1.tid, "", aLemmas(aTok1), aTags(aTok1)),
         TagLine("/err", "", ""),
         TagLine("corr", "2", errTypeStr)>>
       \o [j \in 1..Len(aTok1.linksHigher) |-> BRec(bToks[aTok1.linksHigher[j].ix])]
       \o <<TagLine("/corr", "", "")>>

\* lines 543-554
ADeletionLines(wTok, aToks) ==
    LET aTok1 == aToks[wTok.linksHigher[1].ix]
    IN <<TagLine("err", "2", DelTypeStr(aTok1.linksHigher)),
         Rec(wTok.text, wTok.tid, aTok1.tid, "", aLemmas(aTok1), aTags(aTok1)),
         TagLine("/err", "", ""),
         TagLine("corr", "2", DelTypeStr(aTok1.linksHigher)),
         Rec(DEL_TOK_STR, "", "", DEL_TOK_ID, "", ""),
         TagLine("/corr", "", "")>>

\* the messages of the correction block of a tier-1 edit (line 518)
CorrItemsLog(wTok, aToks, bToks) ==
    Flatten([j \in 1..Len(wTok.linksHigher) |->
        IF CorrItem(aToks[wTok.linksHigher[j].ix], bToks) = <<>>
        THEN <<LogLine("skipping unhandled error (deletion) for token",
                       aToks[wTok.linksHigher[j].ix].tid)>>
        ELSE <<>>])

(***************************************************************************)
(* Inputs.  A paragraph is the identity alignment (w_i - a_i - b_i, no     *)
(* errors, one sentence per B token) changed in at most MaxDev places.     *)
(***************************************************************************)
\* number of W, A and B w-tags of a paragraph
NW == 2
NA == 2
NB == 2
\* number of places where a paragraph differs from the identity alignment
MaxDev == 2
\* number of document sets of a batch and of documents of a set
MaxSets == 2
MaxDocs == 2

WId(i) == "w" \o ToString(i)
AId(i) == "a" \o ToString(i)
BId(i) == "b" \o ToString(i)

Edge(from, to, errors) == [from |-> from, to |-> to, errors |-> errors]

Morph(lemma, tags) == [lemma |-> lemma, tags |-> tags]

\* the error list of an edge with errors
SomeErrors == <<ErrorData(<<"e1", "e2">>), ErrorData(<<"e3">>)>>

Ref(prefix, i) == prefix \o "#" \o prefix \o ToString(i)

DefaultFrom(prefix, i, n) == IF i <= n THEN <<Ref(prefix, i)>> ELSE <<>>

\* the from-lists of two adjacent lower tokens, one of them token i
PairFroms(prefix, i, n) ==
    {<<Ref(prefix, m), Ref(prefix, m + 1)>> : m \in {i - 1, i} \cap 1..(n - 1)}

\* the from-lists of one lower token next to token i
NeighbourFroms(prefix, i, n) ==
    {<<Ref(prefix, m)>> : m \in {i - 1, i + 1} \cap 1..n}

Dev(slot, i, from, errs, n) ==
    [slot |-> slot, i |-> i, from |-> from, errs |-> errs, n |-> n]

\* the changes of the edge of w-tag i of a layer: no edge (n = 1), the edge
\* of an A w-tag comes from a neighbour, the edge comes from two tokens (with
\* or without errors), or it carries errors
EdgeDevs(slot, prefix, i, n) ==
    {Dev(slot, i, <<>>, <<>>, 1)}
    \cup {Dev(slot, i, f, <<>>, 0) :
            f \in IF slot = "aEdge" THEN NeighbourFroms(prefix, i, n) ELSE {}}
    \cup {Dev(slot, i, f, e, 0) : f \in PairFroms(prefix, i, n), e \in {<<>>, SomeErrors}}
    \cup {Dev(slot, i, DefaultFrom(prefix, i, n), SomeErrors, 0)}

\* the single changes of a paragraph
Devs ==
    UNION {EdgeDevs("aEdge", "w", j, NW) : j \in 1..NA}
    \cup UNION {EdgeDevs("bEdge", "a", k, NA) : k \in 1..NB}
    \* a second edge of the first w-tag, from the first lower token
    \cup {Dev("aEdge2", 1, <<"w#w1">>, SomeErrors, 0),
          Dev("bEdge2", 1, <<"a#a1">>, SomeErrors, 0)}
    \* a <to> element of the edge of the first w-tag: with a layer prefix
    \* (n = 1) or without (n = 2)
    \cup {Dev("aTo", 1, <<>>, <<>>, 1), Dev("aTo", 1, <<>>, <<>>, 2),
          Dev("bTo", 1, <<>>, <<>>, 2)}
    \* number of lex tags: n = 0 or n = 2 (default 1)
    \cup {Dev("aLex", j, <<>>, <<>>, 0) : j \in 1..NA}
    \cup {Dev("aLex", 1, <<>>, <<>>, 2),
          Dev("bLex", 1, <<>>, <<>>, 0), Dev("bLex", 1, <<>>, <<>>, 2)}
    \* an edge directly under <para>: a deletion (n = 0) or with a <to> (n = 1)
    \cup {Dev("wDel", i, <<>>, SomeErrors, 0) : i \in 1..NW}
    \cup {Dev("wDel", 1, <<>>, <<>>, 0), Dev("wDel", 1, <<>>, <<>>, 1)}
    \cup {Dev("aDel", j, <<>>, SomeErrors, 0) : j \in 1..NA}
    \cup {Dev("aDel", 1, <<>>, <<>>, 0)}
    \* sentences: b_k stays in the sentence of b_(k-1) (n = 0), or the id of
    \* its sentence is empty (n = 1)
    \cup {Dev("sent", k, <<>>, <<>>, 0) : k \in 2..NB}
    \cup {Dev("sent", k, <<>>, <<>>, 1) : k \in {1, 2} \cap 1..NB}
    \* no sentence in the B paragraph
    \cup {Dev("bNone", 0, <<>>, <<>>, 0)}
    \* the -g flag
    \cup {Dev("guess", 0, <<>>, <<>>, 0)}

RECURSIVE DevSets(_)
\* the sets of at most n changes of different places
DevSets(n) ==
    IF n = 0 THEN {{}}
    ELSE LET smaller == DevSets(n - 1)
         IN smaller \cup
            {T \cup {d} : <<T, d>> \in
                {td \in smaller \X Devs :
                    \A t \in td[1] : ~(t.slot = td[2].slot /\ t.i = td[2].i)}}

Has(D, slot, i) == \E d \in D : d.slot = slot /\ d.i = i

Get(D, slot, i) == CHOOSE d \in D : d.slot = slot /\ d.i = i

\* the edges of the w-tag i of layer "a" or "b"
TagEdges(D, layer, lower, i, nLower) ==
    LET first ==
            IF Has(D, layer \o "Edge", i)
            THEN (IF Get(D, layer \o "Edge", i).n = 1 THEN <<>>
                  ELSE <<Edge(Get(D, layer \o "Edge", i).from, <<>>,
                              Get(D, layer \o "Edge", i).errs)>>)
            ELSE <<Edge(DefaultFrom(lower, i, nLower), <<>>, <<>>)>>
        other == layer \o ToString(IF i = 1 THEN 2 ELSE 1)
        to == IF ~Has(D, layer \o "To", i) THEN <<>>
              ELSE IF Get(D, layer \o "To", i).n = 1 THEN <<layer \o "#" \o other>>
              ELSE <<other>>
        second == IF Has(D, layer \o "Edge2", i)
                  THEN <<Edge(Get(D, layer \o "Edge2", i).from, <<>>,
                              Get(D, layer \o "Edge2", i).errs)>>
                  ELSE <<>>
    IN (IF first = <<>> THEN <<>> ELSE <<[first[1] EXCEPT !.to = to]>>) \o second

TagLex(D, layer, i) ==
    LET n == IF Has(D, layer \o "Lex", i) THEN Get(D, layer \o "Lex", i).n ELSE 1
    IN [m \in 1..n |->
          Morph("l" \o ToString(i) \o (IF m = 1 THEN "" ELSE "x"),
                IF m = 1 THEN <<"k1", "k2">> ELSE <<"k3">>)]

WTag(i) == [id |-> WId(i), text |-> "t" \o ToString(i)]

ATag(D, j, nw) ==
    [id |-> AId(j), text |-> "t" \o ToString(j), lex |-> TagLex(D, "a", j),
     edges |-> TagEdges(D, "a", "w", j, nw)]

BTag(D, k, na) ==
    [id |-> BId(k), text |-> "t" \o ToString(k), lex |-> TagLex(D, "b", k),
     edges |-> TagEdges(D, "b", "a", k, na)]

\* the edges directly under a paragraph
ParaEdges(D, slot, prefix, n) ==
    Flatten([i \in 1..n |->
        IF Has(D, slot, i)
        THEN <<Edge(<<Ref(prefix, i)>>,
                    IF Get(D, slot, i).n = 1 THEN <<"x">> ELSE <<>>,
                    Get(D, slot, i).errs)>>
        ELSE <<>>])

\* b_k opens a sentence
Opens(D, k) == k = 1 \/ ~(Has(D, "sent", k) /\ Get(D, "sent", k).n = 0)

SentId(D, k) ==
    IF Has(D, "sent", k) /\ Get(D, "sent", k).n = 1 THEN "" ELSE "s" \o ToString(k)

\* index of the last token of the sentence that b_k opens
SentEnd(D, k, nb) ==
    CHOOSE e \in k..nb :
        /\ \A m \in (k + 1)..e : ~Opens(D, m)
        /\ (e = nb \/ Opens(D, e + 1))

Sentences(D, na, nb) ==
    IF Has(D, "bNone", 0) THEN <<>>
    ELSE Flatten([k \in 1..nb |->
            IF Opens(D, k)
            THEN <<[id |-> SentId(D, k),
                    w |-> [m \in 1..(SentEnd(D, k, nb) - k + 1) |-> BTag(D, k + m - 1, na)]]>>
            ELSE <<>>])

\* the paragraph of nw, na and nb w-tags with the changes D
ParaOf(D, nw, na, nb) ==
    [id |-> "b-p1",
     w |-> [i \in 1..nw |-> WTag(i)],
     a |-> [j \in 1..na |-> ATag(D, j, nw)],
     aDel |-> ParaEdges(D, "wDel", "w", nw),
     b |-> Sentences(D, na, nb),
     bDel |-> ParaEdges(D, "aDel", "a", na)]

Para(D) == ParaOf(D, NW, NA, NB)

\* the documents of a batch hold one paragraph of one token per layer; a
\* changed document has a void B layer, a B token with two lex tags (its
\* paragraph raises) or no paragraph
DocKinds == {"void", "twolex", "nopara"}

DocParas(kind) ==
    IF kind = "void" THEN <<ParaOf({Dev("bNone", 0, <<>>, <<>>, 0)}, 1, 1, 1)>>
    ELSE IF kind = "twolex" THEN <<ParaOf({Dev("bLex", 1, <<>>, <<>>, 2)}, 1, 1, 1)>>
    ELSE IF kind = "nopara" THEN <<>>
    ELSE <<ParaOf({}, 1, 1, 1)>>

\* the changed documents of a batch: at most n documents, each
\* [s, d, kind] for document d of set s
RECURSIVE DocDevSets(_)
DocDevSets(n) ==
    IF n = 0 THEN {{}}
    ELSE LET smaller == DocDevSets(n - 1)
             all == {[s |-> s, d |-> d, kind |-> kd] :
                        s \in 1..MaxSets, d \in 1..MaxDocs, kd \in DocKinds}
         IN smaller \cup
            {T \cup {x} : <<T, x>> \in
                {tx \in smaller \X all :
                    \A t \in tx[1] : ~(t.s = tx[2].s /\ t.d = tx[2].d)}}

DocKind(X, s, d) ==
    IF \E x \in X : x.s = s /\ x.d = d
    THEN (CHOOSE x \in X : x.s = s /\ x.d = d).kind
    ELSE "plain"

Batch(X) ==
    [s \in 1..MaxSets |->
        [d \in 1..MaxDocs |->
            [id |-> "b-d" \o ToString(s) \o ToString(d),
             paras |-> DocParas(DocKind(X, s, d))]]]

(***************************************************************************)
(* State                                                                   *)
(***************************************************************************)
VARIABLES
    batch,          \* the parsed document sets (metaFiles), each a list of documents
    guessErrors,    \* args.guessErrors
    pc,             \* "main", "xml", "doc", "assignA", "assignW", "vert", "loop", "ret"
    fileIdx,        \* main: position in metaFiles
    docIdx,         \* xmlToVert: position in bDocs
    paraIdx,        \* docToVert: position in bParas
    stdout,         \* lines printed on stdout
    stderr,         \* lines printed on stderr
    xmlBuf,         \* vertBuffer of xmlToVert
    docBuf,         \* vertBuffer of docToVert
    idMaps,         \* the id maps and deletion maps of createLinkedLayers
    wLayer, aLayer, bLayer,     \* the token layers of paraToVert
    wToks,          \* the deque of paraToVert: positions in wLayer
    currSentenceId, \* of paraToVert
    vertBuffer      \* of paraToVert

vars == <<batch, guessErrors, pc, fileIdx, docIdx, paraIdx, stdout, stderr,
          xmlBuf, docBuf, idMaps, wLayer, aLayer, bLayer, wToks,
          currSentenceId, vertBuffer>>

inputs == <<batch, guessErrors>>

paraLocals == <<idMaps, wLayer, aLayer, bLayer, wToks, currSentenceId, vertBuffer>>

NoMaps == [idMapWA |-> <<>>, idMapAB |-> <<>>, idMapAW |-> <<>>, idMapBA |-> <<>>,
           idToDelW |-> <<>>, idToDelA |-> <<>>]

InitRest ==
    /\ pc = "main"
    /\ fileIdx = 1
    /\ docIdx = 1
    /\ paraIdx = 1
    /\ stdout = <<>>
    /\ stderr = <<>>
    /\ xmlBuf = <<>>
    /\ docBuf = <<>>
    /\ idMaps = NoMaps
    /\ wLayer = <<>>
    /\ aLayer = <<>>
    /\ bLayer = <<>>
    /\ wToks = <<>>
    /\ currSentenceId = None
    /\ vertBuffer = <<>>

\* one document set of one document of one paragraph
Init ==
    /\ \E D \in DevSets(MaxDev) :
          /\ batch = <<<<[id |-> "b-d1", paras |-> <<Para(D)>>]>>>>
          /\ guessErrors = Has(D, "guess", 0)
    /\ InitRest

\* a batch of document sets
InitBatch ==
    /\ \E X \in DocDevSets(MaxDev) : batch = Batch(X)
    /\ guessErrors = FALSE
    /\ InitRest

(***************************************************************************)
(* main / xmlToVert / docToVert                                            *)
(***************************************************************************)
\* the locals of paraToVert go out of scope
DropParaLocals ==
    /\ idMaps' = NoMaps
    /\ wLayer' = <<>>
    /\ aLayer' = <<>>
    /\ bLayer' = <<>>
    /\ wToks' = <<>>
    /\ currSentenceId' = None
    /\ vertBuffer' = <<>>

\* the handler of main with break in place of continue: the loop over the
\* metaFiles ends
ExceptBreak(printed) ==
    /\ pc' = "main"
    /\ fileIdx' = Len(batch) + 1
    /\ stderr' = stderr \o printed \o <<LogLine("Failed to process files", ToString(fileIdx))>>
    /\ xmlBuf' = <<>>
    /\ docBuf' = <<>>
    /\ DropParaLocals
    /\ UNCHANGED <<inputs, docIdx, paraIdx>>

\* an exception leaves xmlToVert and is caught in main (lines 635-640):
\* nothing of this document set is printed, the loop continues
Except(printed) ==
    /\ pc' = "main"
    /\ fileIdx' = fileIdx + 1
    /\ stderr' = stderr \o printed \o <<LogLine("Failed to process files", ToString(fileIdx))>>
    /\ xmlBuf' = <<>>
    /\ docBuf' = <<>>
    /\ DropParaLocals
    /\ UNCHANGED <<inputs, docIdx, paraIdx>>

\* main, lines 632-634 and 605-611: the next metaFile, xmlToVert begins
MainNextFile ==
    /\ pc = "main"
    /\ fileIdx <= Len(batch)
    /\ pc' = "xml"
    /\ docIdx' = 1
    /\ xmlBuf' = <<>>
    /\ stderr' = Append(stderr, LogLine("processing", ToString(fileIdx)))
    /\ UNCHANGED <<inputs, fileIdx, paraIdx, stdout, docBuf, paraLocals>>

RECURSIVE Sum(_)
Sum(ns) == IF ns = <<>> THEN 0 ELSE Head(ns) + Sum(Tail(ns))

\* len(aDoc.find_all('w')), len(bDoc.find_all('w'))
aTokCnt(doc) == Sum([p \in 1..Len(doc.paras) |-> Len(doc.paras[p].a)])
bTokCnt(doc) == Sum([p \in 1..Len(doc.paras) |-> Len(BTags(doc.paras[p].b))])

\* bDocId[2:]
outDocId(bDocId) == SubSeq(bDocId, 3, Len(bDocId))

\* docToVert, lines 569-594
DocToVertBegin ==
    /\ pc = "xml"
    /\ docIdx <= Len(batch[fileIdx])
    /\ LET bDoc == batch[fileIdx][docIdx]
       IN IF bTokCnt(bDoc) = 0 /\ aTokCnt(bDoc) > 0
          THEN /\ Except(<<>>)
               /\ UNCHANGED stdout
          ELSE /\ pc' = "doc"
               /\ paraIdx' = 1
               /\ docBuf' = <<TagLine("doc", "", outDocId(bDoc.id))>>
               /\ UNCHANGED <<inputs, fileIdx, docIdx, stdout, stderr, xmlBuf, paraLocals>>

\* docToVert, lines 599-601, and xmlToVert, line 614
DocToVertReturn ==
    /\ pc = "doc"
    /\ paraIdx > Len(batch[fileIdx][docIdx].paras)
    /\ xmlBuf' = xmlBuf \o docBuf \o <<TagLine("/doc", "", "")>>
    /\ docBuf' = <<>>
    /\ docIdx' = docIdx + 1
    /\ pc' = "xml"
    /\ UNCHANGED <<inputs, fileIdx, paraIdx, stdout, stderr, paraLocals>>

\* xmlToVert, line 616, and main, lines 642-643: print(vertStr); print()
XmlToVertReturn ==
    /\ pc = "xml"
    /\ docIdx > Len(batch[fileIdx])
    /\ stdout' = stdout \o (IF xmlBuf = <<>> THEN <<TagLine("", "", "")>> ELSE xmlBuf)
                        \o <<TagLine("", "", "")>>
    /\ xmlBuf' = <<>>
    /\ fileIdx' = fileIdx + 1
    /\ pc' = "main"
    /\ UNCHANGED <<inputs, docIdx, paraIdx, stderr, docBuf, paraLocals>>

(***************************************************************************)
(* paraToVert                                                              *)
(***************************************************************************)
\* lines 416-425: createLinkedLayers
CreateLinkedLayers ==
    /\ pc = "doc"
    /\ paraIdx <= Len(batch[fileIdx][docIdx].paras)
    /\ \E r \in {createLinkedLayers(batch[fileIdx][docIdx].paras[paraIdx])} :
          /\ stdout' = stdout \o r.out
          /\ IF r.raises
             THEN Except(r.err)
             ELSE /\ idMaps' = [idMapWA |-> r.idMapWA, idMapAB |-> r.idMapAB,
                                idMapAW |-> r.idMapAW, idMapBA |-> r.idMapBA,
                                idToDelW |-> r.idToDelW, idToDelA |-> r.idToDelA]
                  /\ wLayer' = r.w
                  /\ aLayer' = r.a
                  /\ bLayer' = r.b
                  /\ stderr' = stderr \o r.err
                  /\ pc' = "assignA"
                  /\ UNCHANGED <<inputs, fileIdx, docIdx, paraIdx, xmlBuf, docBuf,
                                 wToks, currSentenceId, vertBuffer>>

\* line 426
AssignSentenceIdsA ==
    /\ pc = "assignA"
    /\ \E r \in {assignSentenceIds(aLayer, bLayer)} :
          IF r.raises
          THEN Except(assignSentenceIdsLog(aLayer, bLayer))
          ELSE /\ aLayer' = r.layer
               /\ stderr' = stderr \o assignSentenceIdsLog(aLayer, bLayer)
               /\ pc' = "assignW"
               /\ UNCHANGED <<inputs, fileIdx, docIdx, paraIdx, xmlBuf, docBuf,
                              idMaps, wLayer, bLayer, wToks, currSentenceId, vertBuffer>>
    /\ UNCHANGED stdout

\* line 427
AssignSentenceIdsW ==
    /\ pc = "assignW"
    /\ \E r \in {assignSentenceIds(wLayer, aLayer)} :
          IF r.raises
          THEN Except(assignSentenceIdsLog(wLayer, aLayer))
          ELSE /\ wLayer' = r.layer
               /\ stderr' = stderr \o assignSentenceIdsLog(wLayer, aLayer)
               /\ pc' = "vert"
               /\ UNCHANGED <<inputs, fileIdx, docIdx, paraIdx, xmlBuf, docBuf,
                              idMaps, aLayer, bLayer, wToks, currSentenceId, vertBuffer>>
    /\ UNCHANGED stdout

\* bParaId.split('-', maxsplit=1)[1]
commonId(bParaId) == SplitSecond(bParaId, "-")

\* lines 429-438
BeginVert ==
    /\ pc = "vert"
    /\ aLayer' = IF guessErrors THEN inferErrors(aLayer, wLayer) ELSE aLayer
    /\ bLayer' = IF guessErrors THEN inferErrors(bLayer, aLayer) ELSE bLayer
    /\ currSentenceId' = None
    /\ wToks' = [i \in 1..Len(wLayer) |-> i]
    /\ vertBuffer' = <<TagLine("p", "", commonId(batch[fileIdx][docIdx].paras[paraIdx].id))>>
    /\ pc' = "loop"
    /\ UNCHANGED <<inputs, fileIdx, docIdx, paraIdx, stdout, stderr, xmlBuf, docBuf,
                   idMaps, wLayer>>

\* the new sentence opened without the test 'if currSentenceId' that
\* closes the one before
SentenceLinesNoClose(wTok, curr) ==
    IF wTok.sentenceId # curr
    THEN <<TagLine("s", "", wTok.sentenceId)>>
    ELSE <<>>

\* lines 441-445
SentenceLines(wTok, curr) ==
    IF wTok.sentenceId # curr
    THEN (IF Truthy(curr) THEN <<TagLine("/s", "", "")>> ELSE <<>>)
         \o <<TagLine("s", "", wTok.sentenceId)>>
    ELSE <<>>

\* lines 447-556 for the token at the head of the deque: the lines appended,
\* the number of further tokens taken from the deque, the messages
TokenLines(wi, rest, wToksLayer, aToks, bToks) ==
    LET wTok == wToksLayer[wi]
    IN IF noErrorsTransitive(wTok, aToks, bToks)
       THEN [lines |-> FlatLines(wTok, aToks, bToks), taken |-> 0, err |-> <<>>]
       ELSE IF Len(wTok.linksHigher) = 0 \/ wTok.linksHigher[1].del
       THEN [lines |-> WDeletionLines(wTok), taken |-> 0, err |-> <<>>]
       ELSE LET aTok1 == aToks[wTok.linksHigher[1].ix]
            IN IF aTok1.errors # <<>>
               THEN LET n == RunLength(wTok.linksHigher[1], rest, wToksLayer)
                    IN [lines |-> WEditLines(wTok, <<wi>> \o SubSeq(rest, 1, n),
                                             wToksLayer, aToks, bToks),
                        taken |-> n,
                        err |-> CorrItemsLog(wTok, aToks, bToks)]
               ELSE IF /\ Len(wTok.linksHigher) = 1
                       /\ Len(aTok1.linksHigher) >= 1
                       /\ ~aTok1.linksHigher[1].del
               THEN [lines |-> AEditLines(wTok, aToks, bToks), taken |-> 0, err |-> <<>>]
               ELSE IF /\ Len(wTok.linksHigher) = 1
                       /\ (Len(aTok1.linksHigher) = 0 \/ aTok1.linksHigher[1].del)
               THEN [lines |-> ADeletionLines(wTok, aToks), taken |-> 0, err |-> <<>>]
               ELSE [lines |-> <<>>, taken |-> 0,
                     err |-> <<LogLine("skipping unhandled error for token", wTok.tid)>>]

\* one iteration of the while loop, lines 439-556
LoopStep ==
    /\ pc = "loop"
    /\ wToks # <<>>
    /\ \E r \in {TokenLines(Head(wToks), Tail(wToks), wLayer, aLayer, bLayer)} :
       LET wTok == wLayer[Head(wToks)]
       IN /\ vertBuffer' = vertBuffer \o SentenceLines(wTok, currSentenceId) \o r.lines
          /\ currSentenceId' = wTok.sentenceId
          /\ wToks' = SubSeq(wToks, 2 + r.taken, Len(wToks))
          /\ stderr' = stderr \o r.err
    /\ UNCHANGED <<inputs, pc, fileIdx, docIdx, paraIdx, stdout, xmlBuf, docBuf,
                   idMaps, wLayer, aLayer, bLayer>>

\* lines 560-563
EndVert ==
    /\ pc = "loop"
    /\ wToks = <<>>
    /\ vertBuffer' = vertBuffer
                     \o (IF Truthy(currSentenceId) THEN <<TagLine("/s", "", "")>> ELSE <<>>)
                     \o <<TagLine("/p", "", "")>>
    /\ pc' = "ret"
    /\ UNCHANGED <<inputs, fileIdx, docIdx, paraIdx, stdout, stderr, xmlBuf, docBuf,
                   idMaps, wLayer, aLayer, bLayer, wToks, currSentenceId>>

\* line 565, and docToVert, line 597
ParaToVertReturn ==
    /\ pc = "ret"
    /\ docBuf' = docBuf \o vertBuffer
    /\ paraIdx' = paraIdx + 1
    /\ pc' = "doc"
    /\ DropParaLocals
    /\ UNCHANGED <<inputs, fileIdx, docIdx, stdout, stderr, xmlBuf>>

Next ==
    \/ MainNextFile
    \/ DocToVertBegin
    \/ DocToVertReturn
    \/ XmlToVertReturn
    \/ CreateLinkedLayers
    \/ AssignSentenceIdsA
    \/ AssignSentenceIdsW
    \/ BeginVert
    \/ LoopStep
    \/ EndVert
    \/ ParaToVertReturn

Spec == Init /\ [][Next]_vars

SpecBatch == InitBatch /\ [][Next]_vars

(***************************************************************************)
(* Properties.  The output of paraToVert is complete when pc = "ret": the  *)
(* layers are those the serializer walked, vertBuffer holds every line.    *)
(***************************************************************************)
AtReturn == pc = "ret"

\* the positions of the records of vertBuffer that carry the W id tid
LinesOfW(tid) ==
    {i \in 1..Len(vertBuffer) : vertBuffer[i].k = "rec" /\ vertBuffer[i].f[2] = tid}

\* the number of lines before position i whose tag is in ks
CountBefore(i, ks) == Cardinality({j \in 1..(i - 1) : vertBuffer[j].k \in ks})

\* line i lies inside an <err> or <corr> block
InErrCorr(i) == CountBefore(i, {"err", "corr"}) > CountBefore(i, {"/err", "/corr"})

\* a W token with a clean chain: one higher link, a real A token without
\* errors, which has one higher link, a real B token without errors
CleanChain(wTok) ==
    /\ Len(wTok.linksHigher) = 1
    /\ ~wTok.linksHigher[1].del
    /\ aLayer[wTok.linksHigher[1].ix].errors = <<>>
    /\ Len(aLayer[wTok.linksHigher[1].ix].linksHigher) = 1
    /\ ~aLayer[wTok.linksHigher[1].ix].linksHigher[1].del
    /\ bLayer[aLayer[wTok.linksHigher[1].ix].linksHigher[1].ix].errors = <<>>

\* C1: every W token with a clean chain W-A-B has exactly one line in the
\* output of its paragraph; the line is the record (W text, W id, A id, B id,
\* lemma of the B token, tags of the B token joined by '|') and lies in no
\* <err> or <corr> block.
C1_CleanChainFlatRecord ==
    AtReturn =>
        \A wi \in 1..Len(wLayer) :
            CleanChain(wLayer[wi]) =>
                LET wTok == wLayer[wi]
                    aTok == aLayer[wTok.linksHigher[1].ix]
                    bTok == bLayer[aTok.linksHigher[1].ix]
                IN \E i \in 1..Len(vertBuffer) :
                      /\ LinesOfW(wTok.tid) = {i}
                      /\ vertBuffer[i].f = <<wTok.text, wTok.tid, aTok.tid, bTok.tid,
                                             bTok.morphs[1].lemma,
                                             Join(bTok.morphs[1].tags, "|")>>
                      /\ ~InErrCorr(i)

\* a paragraph is serialized in which one W token has a clean chain and
\* another one is written in an error block
C1_Witness ==
    /\ AtReturn
    /\ \E wi \in 1..Len(wLayer) : CleanChain(wLayer[wi])
    /\ \E i \in 1..Len(vertBuffer) : vertBuffer[i].k = "err"

\* the higher link of the W token is a deletion marker
DeletedW(wTok) == wTok.linksHigher # <<>> /\ wTok.linksHigher[1].del

\* C2: every W token whose higher link is a deletion marker has exactly one
\* line in the output; the line holds its text and id, is the only line of an
\* <err level="1"> block, and that block is immediately followed by a
\* <corr level="1"> block whose single record is the placeholder
\* '===NONE===' with 'NA' as A id and B id.
C2_DeletionPair ==
    AtReturn =>
        \A wi \in 1..Len(wLayer) :
            DeletedW(wLayer[wi]) =>
                \E i \in 2..(Len(vertBuffer) - 4) :
                    /\ LinesOfW(wLayer[wi].tid) = {i}
                    /\ vertBuffer[i - 1].k = "err" /\ vertBuffer[i - 1].lv = "1"
                    /\ vertBuffer[i].f = <<wLayer[wi].text, wLayer[wi].tid, "", "", "", "">>
                    /\ vertBuffer[i + 1].k = "/err"
                    /\ vertBuffer[i + 2].k = "corr" /\ vertBuffer[i + 2].lv = "1"
                    /\ vertBuffer[i + 3].k = "rec"
                    /\ vertBuffer[i + 3].f = <<"===NONE===", "", "NA", "NA", "", "">>
                    /\ vertBuffer[i + 4].k = "/corr"

\* a paragraph is serialized in which a W token is deleted although the
\* forward map lists an A token for it
C2_Witness ==
    /\ AtReturn
    /\ \E wi \in 1..Len(wLayer) :
          DeletedW(wLayer[wi]) /\ wLayer[wi].linkIdsHigher # <<>>

\* C3: once assignSentenceIds has run on the A layer and on the W layer, no
\* token of the W, A or B layer has the sentence id None.
C3_SentenceIdsTotal ==
    pc \in {"vert", "loop", "ret"} =>
        /\ \A i \in 1..Len(wLayer) : wLayer[i].sentenceId # None
        /\ \A i \in 1..Len(aLayer) : aLayer[i].sentenceId # None
        /\ \A i \in 1..Len(bLayer) : bLayer[i].sentenceId # None

\* a token without a link to a real higher token
Unresolved(tok) == tok.linksHigher = <<>> \/ tok.linksHigher[1].del

\* both propagations are done; an unlinked W token, a deleted W token or A
\* token took the id of a neighbour
C3_Witness ==
    /\ pc = "vert"
    /\ \E i \in 1..Len(wLayer) :
          /\ Unresolved(wLayer[i])
          /\ wLayer[i].sentenceId \notin {None, "unknown"}
    /\ \E j \in 1..Len(aLayer) :
          /\ Unresolved(aLayer[j])
          /\ aLayer[j].sentenceId \notin {None, "unknown"}

(***************************************************************************)
(* Unlinked W tokens                                                       *)
(***************************************************************************)
\* the W token has no edge to the A layer and no deletion
NoLinkNoDeletion(tid) ==
    /\ MapGet(idMaps.idMapWA, tid, <<>>) = <<>>
    /\ ~HasKey(idMaps.idToDelW, tid)

\* the number of lines of vertBuffer with tag k
Count(k) == CountBefore(Len(vertBuffer) + 1, {k})

\* vertBuffer is one <p> block whose tags are balanced
WellFormedP ==
    /\ Len(vertBuffer) >= 2
    /\ vertBuffer[1].k = "p"
    /\ vertBuffer[Len(vertBuffer)].k = "/p"
    /\ \A i \in 2..(Len(vertBuffer) - 1) : vertBuffer[i].k \notin {"p", "/p"}
    /\ Count("s") = Count("/s")
    /\ Count("err") = Count("/err")
    /\ Count("corr") = Count("/corr")

LoggedNoLinks(tid) ==
    \E i \in 1..Len(stderr) :
        stderr[i] = [msg |-> "W-layer token with no links", id |-> tid]

\* C4 as stated: a W token with neither an A-level link nor a deletion is
\* logged, its text and id appear in no line of the output, and the output
\* of the paragraph is a well-formed <p> block.
C4_UnlinkedExcluded ==
    AtReturn =>
        \A wi \in 1..Len(wLayer) :
            NoLinkNoDeletion(wLayer[wi].tid) =>
                /\ LoggedNoLinks(wLayer[wi].tid)
                /\ LinesOfW(wLayer[wi].tid) = {}
                /\ WellFormedP

\* C4 amended: a W token with neither an A-level link nor a deletion is
\* logged and is written as a deletion of tier 1 with the type 'del': its
\* one record, with its text and id, is the only line of an
\* <err level="1" type="del"> block, which is followed by a
\* <corr level="1" type="del"> block with the placeholder record; the output
\* of the paragraph is a well-formed <p> block.
C4_UnlinkedWrittenAsDeletion ==
    AtReturn =>
        \A wi \in 1..Len(wLayer) :
            NoLinkNoDeletion(wLayer[wi].tid) =>
                /\ LoggedNoLinks(wLayer[wi].tid)
                /\ \E i \in 2..(Len(vertBuffer) - 4) :
                      /\ LinesOfW(wLayer[wi].tid) = {i}
                      /\ vertBuffer[i - 1].k = "err"
                      /\ vertBuffer[i - 1].lv = "1"
                      /\ vertBuffer[i - 1].ty = "del"
                      /\ vertBuffer[i].f = <<wLayer[wi].text, wLayer[wi].tid, "", "", "", "">>
                      /\ vertBuffer[i + 1].k = "/err"
                      /\ vertBuffer[i + 2].k = "corr"
                      /\ vertBuffer[i + 2].lv = "1"
                      /\ vertBuffer[i + 2].ty = "del"
                      /\ vertBuffer[i + 3].f = <<"===NONE===", "", "NA", "NA", "", "">>
                      /\ vertBuffer[i + 4].k = "/corr"
                /\ WellFormedP

\* a paragraph is serialized in which one W token has no link and no
\* deletion and another W token has a clean chain
C4_Witness ==
    /\ AtReturn
    /\ \E wi \in 1..Len(wLayer) : NoLinkNoDeletion(wLayer[wi].tid)
    /\ \E wi \in 1..Len(wLayer) :
          ~NoLinkNoDeletion(wLayer[wi].tid) /\ CleanChain(wLayer[wi])

(***************************************************************************)
(* Documents without B-layer tokens                                        *)
(***************************************************************************)
\* main has gone through all metaFiles
Final == pc = "main" /\ fileIdx > Len(batch)

\* the B document has no tokens, its A document has some
Void(doc) ==
    /\ \A p \in 1..Len(doc.paras) :
          \A i \in 1..Len(doc.paras[p].b) : doc.paras[p].b[i].w = <<>>
    /\ \E p \in 1..Len(doc.paras) : doc.paras[p].a # <<>>

HasVoid(s) == \E d \in 1..Len(batch[s]) : Void(batch[s][d])

\* a B token of the document set has several lex elements, which
\* Morph.fromLexTag does not accept
OtherFailure(s) ==
    \E d \in 1..Len(batch[s]) :
        \E p \in 1..Len(batch[s][d].paras) :
            \E i \in 1..Len(batch[s][d].paras[p].b) :
                \E j \in 1..Len(batch[s][d].paras[p].b[i].w) :
                    Len(batch[s][d].paras[p].b[i].w[j].lex) > 1

\* the <doc> line of document d of document set s is on stdout
Printed(s, d) ==
    \E i \in 1..Len(stdout) :
        /\ stdout[i].k = "doc"
        /\ stdout[i].ty = "d" \o ToString(s) \o ToString(d)

\* C5 as stated: a B document without tokens whose A document has tokens is
\* skipped, and every other document is written: those of the same document
\* set and those of the other document sets (a document set with another
\* failure is left aside).
C5_FatalForDocumentOnly ==
    Final =>
        \A s \in 1..Len(batch) :
            ~OtherFailure(s) =>
                \A d \in 1..Len(batch[s]) : Printed(s, d) <=> ~Void(batch[s][d])

\* C5 amended: a B document without tokens whose A document has tokens is
\* fatal for its document set: no document of that set is written, the
\* failure is logged with the set, and every document of every document set
\* in which nothing fails is written, before and after the failing set.
C5_FatalForDocumentSet ==
    Final =>
        \A s \in 1..Len(batch) :
            /\ HasVoid(s) =>
                  /\ \A d \in 1..Len(batch[s]) : ~Printed(s, d)
                  /\ \E i \in 1..Len(stderr) :
                        stderr[i] = [msg |-> "Failed to process files", id |-> ToString(s)]
            /\ (~HasVoid(s) /\ ~OtherFailure(s)) =>
                  \A d \in 1..Len(batch[s]) : Printed(s, d)

\* the batch is done; a document set failed on its second document, after a
\* first document that is in order, and a later document set is written
C5_Witness ==
    /\ Final
    /\ \E s \in 1..(Len(batch) - 1) :
          /\ Len(batch[s]) >= 2
          /\ ~Void(batch[s][1])
          /\ Void(batch[s][2])
          /\ ~OtherFailure(s)
          /\ \A d \in 1..Len(batch[s + 1]) : Printed(s + 1, d)

(***************************************************************************)
(* The id maps and the links                                               *)
(***************************************************************************)
\* the ids listed under key in the map m
Listed(m, key) == Range(MapGet(m, key, <<>>))

\* all ids that are a key or a value of one of the two maps
IdsOf(fwd, rev) ==
    Keys(fwd) \cup Keys(rev)
        \cup UNION {Range(fwd[i].v) : i \in 1..Len(fwd)}
        \cup UNION {Range(rev[i].v) : i \in 1..Len(rev)}

Mirrored(fwd, rev) ==
    \A id1 \in IdsOf(fwd, rev) :
        \A id2 \in IdsOf(fwd, rev) :
            id2 \in Listed(fwd, id1) <=> id1 \in Listed(rev, id2)

\* C6: in the maps the layer builders work with, id2 is listed under id1 in
\* the forward map if and only if id1 is listed under id2 in the map
\* revertMapping made of it, for W-A (idMapWA, idMapAW) and for A-B
\* (idMapAB, idMapBA).
C6_ReverseMirrorsForward ==
    /\ Mirrored(idMaps.idMapWA, idMaps.idMapAW)
    /\ Mirrored(idMaps.idMapAB, idMaps.idMapBA)

\* the layers are built; in the W-A map one W id lists two A ids, in its
\* reverse one A id lists two W ids, and the A-B map has entries
C6_Witness ==
    /\ pc = "assignA"
    /\ idMaps.idMapAB # <<>>
    /\ idMaps.idMapBA # <<>>
    /\ \E id1 \in Keys(idMaps.idMapWA) :
          Cardinality(Listed(idMaps.idMapWA, id1)) >= 2
    /\ \E id2 \in Keys(idMaps.idMapAW) :
          Cardinality(Listed(idMaps.idMapAW, id2)) >= 2

\* a list of links that is one deletion marker, or real tokens only
OneKind(links) ==
    \/ Len(links) = 1 /\ links[1].del
    \/ \A i \in 1..Len(links) : ~links[i].del

\* the links of the tokens of a layer, given the deletions of the layer
LinksSettled(layer, idToDel) ==
    \A i \in 1..Len(layer) :
        /\ OneKind(layer[i].linksHigher)
        /\ HasKey(idToDel, layer[i].tid) =>
              /\ Len(layer[i].linksHigher) = 1
              /\ layer[i].linksHigher[1] = MapGet(idToDel, layer[i].tid, <<>>)

\* C7: after createLinkedLayers the linksHigher of every W token and A token
\* is one deletion marker or a list of real tokens, never both; a token
\* whose id is in the deletion map has that deletion marker as its only
\* link, also when the forward map lists ids for it.
C7_DeletionOrRealLinks ==
    pc \in {"assignA", "assignW", "vert", "loop", "ret"} =>
        /\ LinksSettled(wLayer, idMaps.idToDelW)
        /\ LinksSettled(aLayer, idMaps.idToDelA)

\* the layers are linked; a W token and an A token are deleted although the
\* forward map lists for each an id of a token of the next layer
C7_Witness ==
    /\ pc = "assignA"
    /\ \E i \in 1..Len(wLayer) :
          /\ HasKey(idMaps.idToDelW, wLayer[i].tid)
          /\ \E id \in Range(wLayer[i].linkIdsHigher) : LayerGet(aLayer, id) # 0
    /\ \E j \in 1..Len(aLayer) :
          /\ HasKey(idMaps.idToDelA, aLayer[j].tid)
          /\ \E id \in Range(aLayer[j].linkIdsHigher) : LayerGet(bLayer, id) # 0

(***************************************************************************)
(* The serialized paragraph                                                *)
(***************************************************************************)
\* the error tags of the deletion of a W token
DeletionTags(wTok) ==
    IF wTok.linksHigher = <<>> THEN <<>>
    ELSE Flatten([e \in 1..Len(wTok.linksHigher[1].errors) |->
                     wTok.linksHigher[1].errors[e].tags])

\* C8: for a W token without higher link or with a deletion marker as higher
\* link, the type of the <err level="1"> and of the <corr level="1"> tag is
\* the error tags of the deletion joined by '|', and 'del' when the deletion
\* has no error tags.
C8_DeletionType ==
    AtReturn =>
        \A wi \in 1..Len(wLayer) :
            Unresolved(wLayer[wi]) =>
                \A i \in LinesOfW(wLayer[wi].tid) :
                    LET expected == IF DeletionTags(wLayer[wi]) = <<>> THEN "del"
                                    ELSE Join(DeletionTags(wLayer[wi]), "|")
                    IN /\ vertBuffer[i - 1].k = "err"
                       /\ vertBuffer[i - 1].ty = expected
                       /\ vertBuffer[i + 2].k = "corr"
                       /\ vertBuffer[i + 2].ty = expected

\* the sentence id of the <s> block that line i lies in; None outside of
\* any block
SentenceAt(i) ==
    IF \E j \in 1..(i - 1) : vertBuffer[j].k \in {"s", "/s"}
    THEN LET j == CHOOSE j \in 1..(i - 1) :
                     /\ vertBuffer[j].k \in {"s", "/s"}
                     /\ \A m \in (j + 1)..(i - 1) : vertBuffer[m].k \notin {"s", "/s"}
         IN IF vertBuffer[j].k = "s" THEN vertBuffer[j].ty ELSE None
    ELSE None

\* the number of maximal runs of W tokens with equal sentence id
SentenceRuns ==
    Cardinality({i \in 1..Len(wLayer) :
                    i = 1 \/ wLayer[i].sentenceId # wLayer[i - 1].sentenceId})

\* C9: the output of a paragraph has one <s> block for each maximal run of
\* consecutive W tokens with equal sentence id, and every record of a W
\* token lies in a block with the sentence id of the token, also when the
\* token is written in the error run of a preceding token.
C9_SentenceBlocks ==
    AtReturn =>
        /\ Count("s") = SentenceRuns
        /\ \A wi \in 1..Len(wLayer) :
              \A i \in LinesOfW(wLayer[wi].tid) :
                  SentenceAt(i) = wLayer[wi].sentenceId

\* the position of the tag that closes the block opened at line c
BlockEnd(c, open, close) ==
    CHOOSE j \in (c + 1)..Len(vertBuffer) :
        /\ vertBuffer[j].k = close
        /\ Cardinality({m \in (c + 1)..(j - 1) : vertBuffer[m].k = open})
             = Cardinality({m \in (c + 1)..(j - 1) : vertBuffer[m].k = close})
        /\ \A n \in (c + 1)..(j - 1) :
              ~(/\ vertBuffer[n].k = close
                /\ Cardinality({m \in (c + 1)..(n - 1) : vertBuffer[m].k = open})
                     = Cardinality({m \in (c + 1)..(n - 1) : vertBuffer[m].k = close}))

\* the W record at line i is written in a W-level edit: in an
\* <err level="1"> block, its W token linked to real A tokens
InWEdit(wTok, i) ==
    /\ ~Unresolved(wTok)
    /\ vertBuffer[i].f[3] = ""
    /\ \E e \in 1..(i - 1) :
          /\ vertBuffer[e].k = "err"
          /\ vertBuffer[e].lv = "1"
          /\ \A m \in (e + 1)..(i - 1) : vertBuffer[m].k = "rec"

\* the <corr level="1"> line after the <err> block that holds line i
CorrOf(i) ==
    1 + (CHOOSE j \in (i + 1)..Len(vertBuffer) :
            /\ vertBuffer[j].k = "/err"
            /\ \A m \in (i + 1)..(j - 1) : vertBuffer[m].k = "rec")

\* C10: the <corr level="1"> block of a W-level edit has a record for every
\* A token that a W token of the error run links to and that has a real B
\* token, not only for those the first W token of the run links to.
C10_CorrCoversRun ==
    AtReturn =>
        \A wi \in 1..Len(wLayer) :
            \A i \in LinesOfW(wLayer[wi].tid) :
                InWEdit(wLayer[wi], i) =>
                    \A l \in 1..Len(wLayer[wi].linksHigher) :
                        LET aTok == aLayer[wLayer[wi].linksHigher[l].ix]
                        IN ~Unresolved(aTok) =>
                              \E n \in CorrOf(i)..BlockEnd(CorrOf(i), "corr", "/corr") :
                                  /\ vertBuffer[n].k = "rec"
                                  /\ vertBuffer[n].f[3] = aTok.tid

(***************************************************************************)
(* The forward id maps and the edges                                       *)
(***************************************************************************)
\* the paragraph that paraToVert works on
CurrPara == batch[fileIdx][docIdx].paras[paraIdx]

\* the ids that the edges of the w-tags give to the 'from' id fromId: for
\* every w-tag, every edge of it and every 'from' of the edge that names
\* fromId, the id of the w-tag and the 'to' ids of the edge
EdgeTargets(tags, fromId) ==
    Flatten([t \in 1..Len(tags) |->
        Flatten([e \in 1..Len(tags[t].edges) |->
            Flatten([f \in 1..Len(tags[t].edges[e].from) |->
                IF SplitSecond(tags[t].edges[e].from[f], "#") = fromId
                THEN <<tags[t].id>> \o tags[t].edges[e].to
                ELSE <<>>])])])

\* the 'from' ids of all edges of the w-tags
FromIds(tags) ==
    UNION {UNION {{SplitSecond(tags[t].edges[e].from[f], "#") :
                      f \in 1..Len(tags[t].edges[e].from)} :
                  e \in 1..Len(tags[t].edges)} :
           t \in 1..Len(tags)}

\* the w-tags of all sentences of a B paragraph
BWTags(bPara) == Flatten([s \in 1..Len(bPara) |-> bPara[s].w])

\* the forward map lists for every 'from' id what the edges give it
FromEveryEdge(idMap, tags) ==
    \A fromId \in FromIds(tags) :
        MapGet(idMap, fromId, <<>>) = EdgeTargets(tags, fromId)

\* C11: the forward map W-A is built from every edge of every A token and
\* the forward map A-B from every edge of every B token, second and later
\* edges of a token included: each 'from' id of an edge gets the id of the
\* token followed by the 'to' ids of the edge, in the order of the edges.
C11_ForwardMapFromEveryEdge ==
    pc = "assignA" =>
        /\ FromEveryEdge(idMaps.idMapWA, CurrPara.a)
        /\ FromEveryEdge(idMaps.idMapAB, BWTags(CurrPara.b))

(***************************************************************************)
(* The sentence ids after assignSentenceIds                                *)
(***************************************************************************)
\* the positions of the tokens whose first higher link is a real token
ResolvedIdx(layer) == {i \in 1..Len(layer) : ~Unresolved(layer[i])}

\* the smallest number of a non-empty set of numbers
Least(S) == CHOOSE n \in S : \A m \in S : n <= m

\* the sentence ids of the layer are those the rules give, the ids of the
\* higher layer given
SentenceIdsAsRuled(layer, higher) ==
    IF ResolvedIdx(layer) = {}
    THEN \A i \in 1..Len(layer) : layer[i].sentenceId = "unknown"
    ELSE \A i \in 1..Len(layer) :
            layer[i].sentenceId =
                IF i \in ResolvedIdx(layer)
                THEN higher[layer[i].linksHigher[1].ix].sentenceId
                ELSE IF i < Least(ResolvedIdx(layer))
                THEN layer[Least(ResolvedIdx(layer))].sentenceId
                ELSE layer[i - 1].sentenceId

\* a step of assignSentenceIds on the A layer, on the W layer: when it
\* returns, the ids are as ruled; when no token resolves, it returns
StepA ==
    pc = "assignA" =>
        /\ pc' = "assignW" => SentenceIdsAsRuled(aLayer', bLayer)
        /\ ResolvedIdx(aLayer) = {} => pc' = "assignW"

StepW ==
    pc = "assignW" =>
        /\ pc' = "vert" => SentenceIdsAsRuled(wLayer', aLayer)
        /\ ResolvedIdx(wLayer) = {} => pc' = "vert"

NonEmptyIds(layer) == \A i \in 1..Len(layer) : layer[i].sentenceId \notin {None, ""}

UnhandledShape(wTok) ==
    /\ Len(wTok.linksHigher) >= 2
    /\ ~wTok.linksHigher[1].del
    /\ aLayer[wTok.linksHigher[1].ix].errors = <<>>

\* C13: the id of every W token is in at most one line of the output of its
\* paragraph; the W ids come in the order of the W layer; a W token has no
\* line only in the unhandled case (it has two or more higher links and its
\* first A token has no errors), every other W token has its line.
C13_WIdsOnceInOrder ==
    AtReturn =>
        /\ \A wi \in 1..Len(wLayer) :
              /\ Cardinality(LinesOfW(wLayer[wi].tid)) <= 1
              /\ LinesOfW(wLayer[wi].tid) = {} => UnhandledShape(wLayer[wi])
        /\ \A wi \in 1..Len(wLayer) :
              \A wj \in (wi + 1)..Len(wLayer) :
                  \A i \in LinesOfW(wLayer[wi].tid) :
                      \A j \in LinesOfW(wLayer[wj].tid) : i < j

\* a paragraph is serialized whose first W token is skipped as unhandled
\* and logged, and whose second W token is written
C13_Witness ==
    /\ AtReturn
    /\ Len(wLayer) >= 2
    /\ LinesOfW(wLayer[1].tid) = {}
    /\ LinesOfW(wLayer[2].tid) # {}
    /\ \E i \in 1..Len(stderr) :
          stderr[i] = [msg |-> "skipping unhandled error for token", id |-> wLayer[1].tid]

(***************************************************************************)
(* The items of a tier-1 correction block                                  *)
(***************************************************************************)
\* line n is the record of an A token in a tier-1 correction block: it has
\* an A id and no W id
ARecs ==
    {n \in 1..Len(vertBuffer) :
        /\ vertBuffer[n].k = "rec"
        /\ vertBuffer[n].f[2] = ""
        /\ vertBuffer[n].f[3] \notin {"", "NA"}}

\* the A token of the record at line n
ATokOf(n) == aLayer[LayerGet(aLayer, vertBuffer[n].f[3])]

\* the record at line n is the <err level="2"> part of a tier-2 pair
Nested(n) ==
    /\ vertBuffer[n - 1].k = "err" /\ vertBuffer[n - 1].lv = "2"
    /\ vertBuffer[n + 1].k = "/err"
    /\ vertBuffer[n + 2].k = "corr" /\ vertBuffer[n + 2].lv = "2"

\* the A token links to exactly one B token, which has no errors
OneCleanB(aTok) ==
    /\ Len(aTok.linksHigher) = 1
    /\ ~aTok.linksHigher[1].del
    /\ bLayer[aTok.linksHigher[1].ix].errors = <<>>

\* the record at line n is the flat record of the A token and its B token
Flat(n) ==
    /\ vertBuffer[n - 1].k # "err"
    /\ LET aTok == ATokOf(n)
           bTok == bLayer[aTok.linksHigher[1].ix]
       IN vertBuffer[n].f = <<aTok.text, "", aTok.tid, bTok.tid, bTok.morphs[1].lemma,
                              Join(bTok.morphs[1].tags, "|")>>

\* the A tokens of the first W token of a W-level edit whose record is at
\* line i all have an item in the correction block, unless their B-level
\* link is missing or a deletion
ItemsWritten ==
    \A wi \in 1..Len(wLayer) :
        \A i \in LinesOfW(wLayer[wi].tid) :
            (InWEdit(wLayer[wi], i) /\ vertBuffer[i - 1].k = "err") =>
                \A l \in 1..Len(wLayer[wi].linksHigher) :
                    ~Unresolved(aLayer[wLayer[wi].linksHigher[l].ix]) =>
                        \E n \in ARecs :
                            /\ n \in CorrOf(i)..BlockEnd(CorrOf(i), "corr", "/corr")
                            /\ vertBuffer[n].f[3] = aLayer[wLayer[wi].linksHigher[l].ix].tid

\* C14 as stated: in a tier-1 correction block an A token has a tier-2
\* err/corr pair only when it links to non-deletion B tokens that have
\* errors; an A token with exactly one B token without errors has a flat
\* record; an A token whose B-level link is a deletion has no item.
C14_NestedOnlyForBErrors ==
    AtReturn =>
        \A n \in ARecs :
            /\ ~Unresolved(ATokOf(n))
            /\ Nested(n) =>
                  \E l \in 1..Len(ATokOf(n).linksHigher) :
                      bLayer[ATokOf(n).linksHigher[l].ix].errors # <<>>
            /\ OneCleanB(ATokOf(n)) => Flat(n)

\* C14 amended: in a tier-1 correction block an A token has a tier-2
\* err/corr pair exactly when its first B-level link is a real B token and
\* it does not link to exactly one B token without errors: its one B token
\* has errors, or it links to two or more B tokens, with or without errors;
\* an A token with exactly one B token without errors has a flat record; an
\* A token whose B-level link is a deletion has no item; the A tokens of
\* the first W token of the run that have a real B token all have an item.
C14_NestedUnlessOneCleanB ==
    AtReturn =>
        /\ \A n \in ARecs :
              /\ ~Unresolved(ATokOf(n))
              /\ Nested(n) <=> ~OneCleanB(ATokOf(n))
              /\ OneCleanB(ATokOf(n)) => Flat(n)
        /\ ItemsWritten

\* a paragraph is serialized with a tier-2 pair in a tier-1 correction
\* block for an A token that links to two B tokens without errors
C14_Witness ==
    /\ AtReturn
    /\ \E n \in ARecs :
          /\ Nested(n)
          /\ Len(ATokOf(n).linksHigher) >= 2
          /\ \A l \in 1..Len(ATokOf(n).linksHigher) :
                bLayer[ATokOf(n).linksHigher[l].ix].errors = <<>>

(***************************************************************************)
(* The nesting of the output of a paragraph                                *)
(***************************************************************************)
\* the number of lines with tag k strictly between the lines i and j
Between(i, j, k) == Cardinality({m \in (i + 1)..(j - 1) : vertBuffer[m].k = k})

\* the lines that close the block opened at line c: a closing tag, with as
\* many opening as closing tags in between
Closers(c, open, close) ==
    {j \in (c + 1)..Len(vertBuffer) :
        /\ vertBuffer[j].k = close
        /\ Between(c, j, open) = Between(c, j, close)}

\* <p> first, </p> last, and nowhere else
ParagraphFramed ==
    /\ Len(vertBuffer) >= 2
    /\ vertBuffer[1].k = "p"
    /\ vertBuffer[Len(vertBuffer)].k = "/p"
    /\ \A i \in 2..(Len(vertBuffer) - 1) : vertBuffer[i].k \notin {"p", "/p"}

\* every <s> is closed before the next <s> and before </p>, every </s>
\* closes an <s>
SentencesClosed ==
    /\ \A i \in 1..Len(vertBuffer) :
          vertBuffer[i].k = "s" =>
              \E j \in (i + 1)..Len(vertBuffer) :
                  /\ vertBuffer[j].k = "/s"
                  /\ \A m \in (i + 1)..(j - 1) : vertBuffer[m].k \notin {"s", "/s", "/p"}
    /\ \A j \in 1..Len(vertBuffer) :
          vertBuffer[j].k = "/s" =>
              \E i \in 1..(j - 1) :
                  /\ vertBuffer[i].k = "s"
                  /\ \A m \in (i + 1)..(j - 1) : vertBuffer[m].k \notin {"s", "/s"}

\* records and error and correction tags lie in a sentence
AllInSentences ==
    \A i \in 1..Len(vertBuffer) :
        vertBuffer[i].k \in {"rec", "err", "/err", "corr", "/corr"} =>
            SentenceAt(i) # None

\* an <err> block holds records only, is closed, and the next line opens a
\* <corr> block with its level and type
ErrThenCorr ==
    \A i \in 1..Len(vertBuffer) :
        vertBuffer[i].k = "err" =>
            \E j \in (i + 1)..(Len(vertBuffer) - 1) :
                /\ vertBuffer[j].k = "/err"
                /\ \A m \in (i + 1)..(j - 1) : vertBuffer[m].k = "rec"
                /\ vertBuffer[j + 1].k = "corr"
                /\ vertBuffer[j + 1].lv = vertBuffer[i].lv
                /\ vertBuffer[j + 1].ty = vertBuffer[i].ty

\* a <corr> block is closed, within its sentence, and the <err> blocks in
\* it are closed in it; no closing tag without its opening tag
CorrClosed ==
    /\ \A c \in 1..Len(vertBuffer) :
          vertBuffer[c].k = "corr" =>
              /\ Closers(c, "corr", "/corr") # {}
              /\ LET j == Least(Closers(c, "corr", "/corr"))
                 IN /\ Between(c, j, "err") = Between(c, j, "/err")
                    /\ Between(c, j, "s") = 0
                    /\ Between(c, j, "/s") = 0
    /\ \A i \in 1..(Len(vertBuffer) + 1) :
          /\ CountBefore(i, {"/err"}) <= CountBefore(i, {"err"})
          /\ CountBefore(i, {"/corr"}) <= CountBefore(i, {"corr"})

\* C15: for layers with non-empty sentence ids the lines of paraToVert are
\* well nested: <p> first and </p> last; every <s> closed by </s> before the
\* next <s> or </p>; every record and every <err> and <corr> block in an
\* <s> block; every <err> and <corr> closed; every <err> block followed at
\* once by a <corr> block with the same level and type.
C15_WellNested ==
    (AtReturn /\ NonEmptyIds(bLayer)) =>
        /\ ParagraphFramed
        /\ SentencesClosed
        /\ AllInSentences
        /\ ErrThenCorr
        /\ CorrClosed

\* a paragraph of two sentences is serialized, with a tier-2 pair inside a
\* tier-1 correction block
C15_Witness ==
    /\ AtReturn
    /\ NonEmptyIds(bLayer)
    /\ Count("s") >= 2
    /\ \E i \in 2..Len(vertBuffer) :
          /\ vertBuffer[i].k = "err" /\ vertBuffer[i].lv = "2"
          /\ vertBuffer[i - 1].k = "corr" /\ vertBuffer[i - 1].lv = "1"

====
